---- MODULE Spec2Model ----
(***************************************************************************)
(* Capacity-aware seat reservation, cancellation by credential and         *)
(* attendee check-in of the theater reservation application.               *)
(*                                                                         *)
(* The reservations collection and the mailQueue collection are the shared *)
(* store.  Audience booking forms (ReservePage), cancellation pages        *)
(* (CancelReservationPage) and troupe dashboards                           *)
(* (PerformanceReservationsPage) are independent browser sessions: every   *)
(* await on the store is a step boundary, the code that runs between two   *)
(* awaits is one step.                                                     *)
(***************************************************************************)
EXTENDS Integers, Sequences, FiniteSets, TLC

\* ---------------------------------------------------------------- bounds
MaxRes == 2        \* documents the reservations collection may hold
MaxPeople == 2     \* largest number typed into the people field
StageCap == 2      \* seatLimit of the capped stage of the performance
NumTokens == 2     \* distinct values generateCancelToken may return
MaxClock == 3      \* writes to the reservations collection in one behaviour
MaxChecks == 2     \* advisory seat checks of one form in flight at a time
MaxList == 2       \* reservations handed to an aggregation helper
MaxReserved == 8   \* largest reserved total handed to getReservationStatus
MaxLimit == 7      \* largest seat limit total handed to getReservationStatus
FewSeats == 5      \* availableSeats <= 5 of getReservationStatus

Ids == 1..MaxRes
Tokens == 1..NumTokens
Clients == {1, 2}        \* audience sessions showing the booking form
Sessions == {1, 2}       \* audience sessions showing the cancellation page
Staff == {1, 2}          \* troupe sessions showing the reservation dashboard

NoStage == -1            \* selectedStageId === null
NoId == 0                \* no document (docRef not yet assigned, no reservation loaded)
NoToken == 0             \* no token in the URL
NoTime == 0              \* field absent or null

PerformanceId == "p1"

\* performance.stages: index 0 is seat-capped, index 1 is unlimited (seatLimit 0)
StagesOf(limit) == [i \in {0, 1} |-> IF i = 0 THEN [seatLimit |-> limit] ELSE [seatLimit |-> 0]]

StageInputs == {NoStage, 0, 1, 2}     \* 2 is an index outside performance.stages
PeopleInputs == 0..MaxPeople
\* name, email, emailConfirm as typed (already trimmed): all filled in and
\* equal, blank name, blank email, blank confirmation, differing emails
ContactInputs == {<<"a", "e1", "e1">>, <<"", "e1", "e1">>, <<"a", "", "">>,
                  <<"a", "e1", "">>, <<"a", "e1", "e2">>}

VARIABLES
    stages,              \* performance.stages of the performance document (read only)
    ledger,              \* reservations collection: document id -> document data
    mailQueue,           \* mailQueue collection, in insertion order
    clock,               \* commit time of the last write to the reservations collection
    \* ReservePage, per client
    pc,                  \* where handleSubmit is suspended
    req,                 \* form values captured by the running handleSubmit
    latestReservedSeats, \* result of the commit-time getReservedSeatsCount
    pendingToken,        \* cancelToken of the reservationData being written
    docRefId,            \* docRef.id returned by addDoc
    isSubmitting,
    error,
    \* CancelReservationPage, per session
    token,               \* token of the page URL
    reservation,         \* reservation state (copy of the document read)
    cancelled,
    cancelling,
    cancelError,
    \* PerformanceReservationsPage, per staff session
    reservations,        \* documents of the last snapshot delivered
    checkedReservations,
    savingCheckIn,
    checkInWrites,       \* the updateDoc calls of handleCheckInToggle in flight
    checkInAlert,        \* the alert() of a failed check-in write is showing
    \* ReservePage, the form and its advisory seat check, per client
    selectedStageId,
    peopleInput,         \* people
    reservedSeats,
    checkingSeats,
    stageReservedSeatsMap,
    advisoryChecks,      \* the checkAvailableSeats calls in flight, oldest first
    advisoryCompleted,   \* (stage, people) of the checkAvailableSeats calls that returned
    \* the aggregation helpers, called on their own
    calcArgs,            \* arguments of the call
    calcResult           \* value returned

bookingVars == <<pc, req, latestReservedSeats, pendingToken, docRefId, isSubmitting, error>>
cancelVars == <<token, reservation, cancelled, cancelling, cancelError>>
staffVars == <<reservations, checkedReservations, savingCheckIn, checkInWrites, checkInAlert>>
calcVars == <<calcArgs, calcResult>>
formVars == <<selectedStageId, peopleInput, reservedSeats, checkingSeats, stageReservedSeatsMap,
              advisoryChecks, advisoryCompleted>>
vars == <<stages, ledger, mailQueue, clock, bookingVars, cancelVars, staffVars, calcVars, formVars>>

\* ------------------------------------------------------------- helpers
RECURSIVE SumOver(_, _)
SumOver(S, f) ==
    IF S = {} THEN 0
    ELSE LET x == CHOOSE y \in S : TRUE
         IN f[x] + SumOver(S \ {x}, f)

Min(S) == CHOOSE x \in S : \A y \in S : x <= y

\* query(reservations, where performanceId ==, where stageId ==)
StageDocs(docs, perf, stage) ==
    {r \in DOMAIN docs : docs[r].performanceId = perf /\ docs[r].stageId = stage}

\* data.people && typeof data.people === "number" ? data.people : 1
PeopleCount(data) == IF data.people # 0 THEN data.people ELSE 1

\* getReservedSeatsCount, the value it returns when getDocs resolves:
\* every document of the stage is counted, whatever its status
ReservedSeatsCount(docs, perf, stage) ==
    SumOver(StageDocs(docs, perf, stage), [r \in DOMAIN docs |-> PeopleCount(docs[r])])

\* stage statistics of the dashboard's onSnapshot callback: cancelled
\* reservations are filtered out, Number(reservation.people) || 0
StageReservedPeople(docs, stage) ==
    SumOver({r \in DOMAIN docs : docs[r].stageId = stage /\ docs[r].status # "cancelled"},
            [r \in DOMAIN docs |-> docs[r].people])

\* selectedStageData?.seatLimit || 0
SeatLimit(stage) == stages[stage].seatLimit

\* the commit-time comparison: requestedPeople > latestAvailableSeats
SeatInsufficientMutant(requested, limit, reserved) == requested > (limit - reserved) + 1
SeatInsufficient(requested, limit, reserved) == requested > limit - reserved

\* a validation prologue without the comparison of the two email entries
ValidationFailsMutant(name, email, emailConfirm, people, stage) ==
    \/ name = ""
    \/ email = ""
    \/ emailConfirm = ""
    \/ people < 1
    \/ stage = NoStage
    \/ stage \notin DOMAIN stages

\* the validation prologue of handleSubmit; TRUE when it returns early
ValidationFails(name, email, emailConfirm, people, stage) ==
    \/ name = ""
    \/ email = ""
    \/ emailConfirm = ""
    \/ email # emailConfirm
    \/ people < 1
    \/ stage = NoStage
    \/ stage \notin DOMAIN stages

\* reservationData of handleSubmit (the fields the core reads or protects);
\* cancelledAt, checkedIn and checkedInAt are absent from a new document
ReservationData(r, tok, now) ==
    [performanceId |-> PerformanceId, stageId |-> r.stageId, people |-> r.people,
     name |-> r.name, email |-> r.email, status |-> "active", cancelToken |-> tok,
     createdAt |-> now, cancelledAt |-> NoTime, checkedIn |-> FALSE, checkedInAt |-> NoTime]

\* mailQueueData of handleSubmit; cancelUrl carries the token
MailQueueData(id, r, tok) ==
    [type |-> "reservation-confirm", to |-> r.email, cancelUrl |-> tok,
     status |-> "pending", reservationId |-> id]

NoReq == [stageId |-> NoStage, people |-> 0, name |-> "", email |-> ""]
NoError == [kind |-> "", available |-> 0, requested |-> 0]
ErrorOf(kind) == [kind |-> kind, available |-> 0, requested |-> 0]
NoData == [status |-> ""]
NoReservation == [id |-> NoId, data |-> NoData]
EmptyLedger == [r \in {} |-> NoData]

NoArgs == [reservations |-> <<>>, reserved |-> 0, limit |-> 0]
NoResult == [kind |-> "none"]

\* ------------------------------------------- aggregation helpers
\* the values a stored people field may hold: a number, the string of a
\* number ("2"), any other string ("abc"), or nothing (field missing)
JsNumber(n) == [type |-> "number", numeric |-> TRUE, n |-> n]
JsNumericString(n) == [type |-> "string", numeric |-> TRUE, n |-> n]
JsText == [type |-> "string", numeric |-> FALSE, n |-> 0]
JsUndefined == [type |-> "undefined", numeric |-> FALSE, n |-> 0]

PeopleValues ==
    {JsNumber(n) : n \in 1..MaxPeople} \cup {JsNumericString(MaxPeople), JsText, JsUndefined}

\* v as a condition: a non-zero number or a non-empty string
Truthy(v) == (v.type = "number" /\ v.n # 0) \/ v.type = "string"

\* Number(v) || 0
NumberOrZero(v) == IF v.numeric THEN v.n ELSE 0

\* the reservations of one stage, as documents of a snapshot
Entries == [people : PeopleValues, status : {"active", "cancelled"}]
EntryLists == UNION {[1..n -> Entries] : n \in 0..MaxList}

\* the forEach of getReservedSeatsCount over the documents of the query:
\* data.people && typeof data.people === "number" ? data.people : 1
totalReserved(list) ==
    SumOver(DOMAIN list,
            [i \in DOMAIN list |->
                IF Truthy(list[i].people) /\ list[i].people.type = "number"
                THEN list[i].people.n ELSE 1])

\* the stage statistics of the dashboard: filter on status, then reduce
reservedPeople(list) ==
    SumOver({i \in DOMAIN list : list[i].status # "cancelled"},
            [i \in DOMAIN list |-> NumberOrZero(list[i].people)])

\* getTotalReservedPeople of TroupePerformancesPage, used by the detail page
getTotalReservedPeople(list) ==
    SumOver(DOMAIN list, [i \in DOMAIN list |-> NumberOrZero(list[i].people)])

\* getTotalSeatLimit of TroupePerformancesPage: Number(stage?.seatLimit) || 0,
\* added only when it is above 0
getTotalSeatLimit(stageList) ==
    SumOver({i \in DOMAIN stageList : stageList[i].seatLimit > 0},
            [i \in DOMAIN stageList |-> stageList[i].seatLimit])

getReservationStatusMutant(totalReservedPeople, totalSeatLimit) ==
    LET availableSeats == totalSeatLimit - totalReservedPeople
    IN IF totalSeatLimit = 0 THEN "available"
       ELSE IF availableSeats <= 0 THEN "full"
       ELSE IF availableSeats < FewSeats THEN "few"
       ELSE "available"

\* getReservationStatus of TroupePerformancesPage
getReservationStatus(totalReservedPeople, totalSeatLimit) ==
    LET availableSeats == totalSeatLimit - totalReservedPeople
    IN IF totalSeatLimit = 0 THEN "available"
       ELSE IF availableSeats <= 0 THEN "full"
       ELSE IF availableSeats <= FewSeats THEN "few"
       ELSE "available"

\* ---------------------------------------------------------------- Init
InitBooking ==
    /\ pc = [c \in Clients |-> "idle"]
    /\ req = [c \in Clients |-> NoReq]
    /\ latestReservedSeats = [c \in Clients |-> 0]
    /\ pendingToken = [c \in Clients |-> NoToken]
    /\ docRefId = [c \in Clients |-> NoId]
    /\ isSubmitting = [c \in Clients |-> FALSE]
    /\ error = [c \in Clients |-> NoError]

InitCancel ==
    /\ token = [s \in Sessions |-> NoToken]
    /\ reservation = [s \in Sessions |-> NoReservation]
    /\ cancelled = [s \in Sessions |-> FALSE]
    /\ cancelling = [s \in Sessions |-> FALSE]
    /\ cancelError = [s \in Sessions |-> ""]

InitStaff ==
    /\ reservations = [st \in Staff |-> EmptyLedger]
    /\ checkedReservations = [st \in Staff |-> {}]
    /\ savingCheckIn = [st \in Staff |-> {}]
    /\ checkInWrites = [st \in Staff |-> {}]
    /\ checkInAlert = [st \in Staff |-> FALSE]

InitForm ==
    /\ selectedStageId = [c \in Clients |-> NoStage]
    /\ peopleInput = [c \in Clients |-> 1]
    /\ reservedSeats = [c \in Clients |-> 0]
    /\ checkingSeats = [c \in Clients |-> FALSE]
    /\ stageReservedSeatsMap = [c \in Clients |-> [s \in {0, 1} |-> 0]]
    /\ advisoryChecks = [c \in Clients |-> <<>>]
    /\ advisoryCompleted = [c \in Clients |-> {}]

InitCalc ==
    /\ calcArgs = NoArgs
    /\ calcResult = NoResult

Init ==
    /\ stages = StagesOf(StageCap)
    /\ ledger = EmptyLedger
    /\ mailQueue = <<>>
    /\ clock = 0
    /\ InitBooking
    /\ InitCancel
    /\ InitStaff
    /\ InitCalc
    /\ InitForm

\* ----------------------------------------------------- ReservePage steps
\* handleSubmit up to its first await: validation, setIsSubmitting(true),
\* then the commit-time getDocs (capped stage) or directly addDoc (unlimited)
Submit(c, name, email, emailConfirm, people, stage) ==
    /\ pc[c] \in {"idle", "complete"}
    /\ ~isSubmitting[c]
    /\ IF ValidationFails(name, email, emailConfirm, people, stage)
       THEN /\ error' = [error EXCEPT ![c] = ErrorOf("validation")]
            /\ UNCHANGED <<pc, req, isSubmitting, docRefId>>
       ELSE /\ error' = [error EXCEPT ![c] = NoError]
            /\ isSubmitting' = [isSubmitting EXCEPT ![c] = TRUE]
            /\ req' = [req EXCEPT ![c] =
                         [stageId |-> stage, people |-> people, name |-> name, email |-> email]]
            /\ docRefId' = [docRefId EXCEPT ![c] = NoId]
            /\ pc' = [pc EXCEPT ![c] = IF SeatLimit(stage) > 0 THEN "reading" ELSE "writing"]
    /\ UNCHANGED <<ledger, mailQueue, clock, latestReservedSeats, pendingToken,
                   cancelVars, staffVars>>

\* the code that runs once the commit-time getReservedSeatsCount has returned
AfterCommitRead(c, reserved) ==
    /\ IF SeatInsufficient(req[c].people, SeatLimit(req[c].stageId), reserved)
       THEN /\ error' = [error EXCEPT ![c] =
                           [kind |-> "capacity",
                            available |-> SeatLimit(req[c].stageId) - reserved,
                            requested |-> req[c].people]]
            /\ isSubmitting' = [isSubmitting EXCEPT ![c] = FALSE]
            /\ pc' = [pc EXCEPT ![c] = "idle"]
            /\ req' = [req EXCEPT ![c] = NoReq]
            /\ UNCHANGED latestReservedSeats
       ELSE /\ latestReservedSeats' = [latestReservedSeats EXCEPT ![c] = reserved]
            /\ pc' = [pc EXCEPT ![c] = "writing"]
            /\ UNCHANGED <<error, isSubmitting, req>>
    /\ UNCHANGED <<ledger, mailQueue, clock, pendingToken, docRefId, cancelVars, staffVars>>

\* getDocs of the commit-time re-check resolves with the current documents
CommitRead(c) ==
    /\ pc[c] = "reading"
    /\ AfterCommitRead(c, ReservedSeatsCount(ledger, PerformanceId, req[c].stageId))

\* getDocs rejects: the catch of getReservedSeatsCount returns 0
CommitReadFail(c) ==
    /\ pc[c] = "reading"
    /\ AfterCommitRead(c, 0)

\* the auto-generated id of addDoc: ids carry no meaning, the model hands
\* them out in increasing order
NewId(docs) == Min(Ids \ DOMAIN docs)

\* generateCancelToken, then addDoc(reservations) resolves: the document
\* exists under a generated id and handleSubmit goes on to addDoc(mailQueue)
AddReservation(c) ==
    /\ pc[c] = "writing"
    /\ Ids \ DOMAIN ledger # {}
    /\ clock < MaxClock
    /\ clock' = clock + 1
    /\ \E tok \in Tokens :
          /\ ledger' = ledger @@ (NewId(ledger) :> ReservationData(req[c], tok, clock + 1))
          /\ docRefId' = [docRefId EXCEPT ![c] = NewId(ledger)]
          /\ pendingToken' = [pendingToken EXCEPT ![c] = tok]
    /\ pc' = [pc EXCEPT ![c] = "mailing"]
    /\ UNCHANGED <<mailQueue, req, latestReservedSeats, isSubmitting, error,
                   cancelVars, staffVars>>

\* a write that re-validates the capacity inside the store
WriteReservationMutant(c) ==
    IF /\ pc[c] = "writing"
       /\ SeatLimit(req[c].stageId) > 0
       /\ SeatInsufficient(req[c].people, SeatLimit(req[c].stageId),
                           ReservedSeatsCount(ledger, PerformanceId, req[c].stageId))
    THEN /\ error' = [error EXCEPT ![c] = ErrorOf("capacity")]
         /\ isSubmitting' = [isSubmitting EXCEPT ![c] = FALSE]
         /\ pc' = [pc EXCEPT ![c] = "idle"]
         /\ UNCHANGED <<ledger, mailQueue, clock, req, latestReservedSeats, pendingToken,
                        docRefId, cancelVars, staffVars>>
    ELSE AddReservation(c)

\* the reservation write of handleSubmit: no condition is attached to it
WriteReservation(c) == AddReservation(c)

\* addDoc(reservations) rejects: catch and finally of handleSubmit
WriteReservationFail(c) ==
    /\ pc[c] = "writing"
    /\ error' = [error EXCEPT ![c] = ErrorOf("backend")]
    /\ isSubmitting' = [isSubmitting EXCEPT ![c] = FALSE]
    /\ pc' = [pc EXCEPT ![c] = "idle"]
    /\ req' = [req EXCEPT ![c] = NoReq]
    /\ latestReservedSeats' = [latestReservedSeats EXCEPT ![c] = 0]
    /\ UNCHANGED <<ledger, mailQueue, clock, pendingToken, docRefId, cancelVars, staffVars>>

\* addDoc(mailQueue) resolves: navigate to the completion page, finally
EnqueueMail(c) ==
    /\ pc[c] = "mailing"
    /\ mailQueue' = Append(mailQueue, MailQueueData(docRefId[c], req[c], pendingToken[c]))
    /\ isSubmitting' = [isSubmitting EXCEPT ![c] = FALSE]
    /\ pc' = [pc EXCEPT ![c] = "complete"]
    /\ req' = [req EXCEPT ![c] = NoReq]
    /\ pendingToken' = [pendingToken EXCEPT ![c] = NoToken]
    /\ latestReservedSeats' = [latestReservedSeats EXCEPT ![c] = 0]
    /\ UNCHANGED <<ledger, clock, docRefId, error, cancelVars, staffVars>>

\* a catch that is not followed by the finally: isSubmitting stays set
EnqueueMailFailMutant(c) ==
    /\ pc[c] = "mailing"
    /\ error' = [error EXCEPT ![c] = ErrorOf("backend")]
    /\ pc' = [pc EXCEPT ![c] = "idle"]
    /\ req' = [req EXCEPT ![c] = NoReq]
    /\ pendingToken' = [pendingToken EXCEPT ![c] = NoToken]
    /\ latestReservedSeats' = [latestReservedSeats EXCEPT ![c] = 0]
    /\ UNCHANGED <<ledger, mailQueue, clock, docRefId, isSubmitting, cancelVars, staffVars>>

\* addDoc(mailQueue) rejects: catch and finally of handleSubmit
EnqueueMailFail(c) ==
    /\ pc[c] = "mailing"
    /\ error' = [error EXCEPT ![c] = ErrorOf("backend")]
    /\ isSubmitting' = [isSubmitting EXCEPT ![c] = FALSE]
    /\ pc' = [pc EXCEPT ![c] = "idle"]
    /\ req' = [req EXCEPT ![c] = NoReq]
    /\ pendingToken' = [pendingToken EXCEPT ![c] = NoToken]
    /\ latestReservedSeats' = [latestReservedSeats EXCEPT ![c] = 0]
    /\ UNCHANGED <<ledger, mailQueue, clock, docRefId, cancelVars, staffVars>>

SubmitAny(c) ==
    \E contact \in ContactInputs, people \in PeopleInputs, stage \in StageInputs :
        Submit(c, contact[1], contact[2], contact[3], people, stage)

\* ------------------------------------- ReservePage form and advisory check
RemoveAt(seq, i) == SubSeq(seq, 1, i - 1) \o SubSeq(seq, i + 1, Len(seq))

\* the effect on [selectedStageId, people]: without a stage it resets
\* reservedSeats, with a stage it starts checkAvailableSeats, which runs up
\* to its await with the stage, the people and the error of this render
RunSeatCheckEffect(c, stage, ppl) ==
    IF stage = NoStage
    THEN /\ reservedSeats' = [reservedSeats EXCEPT ![c] = 0]
         /\ UNCHANGED <<checkingSeats, advisoryChecks>>
    ELSE /\ Len(advisoryChecks[c]) < MaxChecks
         /\ checkingSeats' = [checkingSeats EXCEPT ![c] = TRUE]
         /\ advisoryChecks' = [advisoryChecks EXCEPT ![c] =
               Append(@, [stageId |-> stage, people |-> ppl, error |-> error[c].kind])]
         /\ UNCHANGED reservedSeats

\* the people field is edited
SetPeople(c, ppl) ==
    /\ ppl # peopleInput[c]
    /\ peopleInput' = [peopleInput EXCEPT ![c] = ppl]
    /\ RunSeatCheckEffect(c, selectedStageId[c], ppl)
    /\ UNCHANGED <<stages, ledger, mailQueue, clock, bookingVars, cancelVars, staffVars,
                   calcVars, selectedStageId, stageReservedSeatsMap, advisoryCompleted>>

\* a stage's radio button, disabled when the seat map loaded with the page
\* shows the stage as full
IsFull(c, stage) ==
    SeatLimit(stage) > 0 /\ SeatLimit(stage) - stageReservedSeatsMap[c][stage] <= 0

SelectStage(c, stage) ==
    /\ stage \in DOMAIN stages
    /\ stage # selectedStageId[c]
    /\ ~IsFull(c, stage)
    /\ selectedStageId' = [selectedStageId EXCEPT ![c] = stage]
    /\ RunSeatCheckEffect(c, stage, peopleInput[c])
    /\ UNCHANGED <<stages, ledger, mailQueue, clock, bookingVars, cancelVars, staffVars,
                   calcVars, peopleInput, stageReservedSeatsMap, advisoryCompleted>>

\* checkAvailableSeats after its await, for the i-th call in flight
AfterAdvisoryRead(c, i, reserved) ==
    LET check == advisoryChecks[c][i]
        seatLimit == SeatLimit(check.stageId)
    IN /\ reservedSeats' = [reservedSeats EXCEPT ![c] = reserved]
       /\ error' = [error EXCEPT ![c] =
             IF seatLimit > 0 /\ check.people > seatLimit - reserved
             THEN [kind |-> "capacity", available |-> seatLimit - reserved,
                   requested |-> check.people]
             ELSE IF check.error = "capacity" THEN NoError ELSE @]
       /\ checkingSeats' = [checkingSeats EXCEPT ![c] = FALSE]
       /\ advisoryChecks' = [advisoryChecks EXCEPT ![c] = RemoveAt(@, i)]
       /\ advisoryCompleted' = [advisoryCompleted EXCEPT ![c] =
             @ \cup {[stageId |-> check.stageId, people |-> check.people]}]
       /\ UNCHANGED <<stages, ledger, mailQueue, clock, pc, req, latestReservedSeats,
                      pendingToken, docRefId, isSubmitting, cancelVars, staffVars, calcVars,
                      selectedStageId, peopleInput, stageReservedSeatsMap>>

\* getDocs of an advisory check resolves
AdvisoryRead(c, i) ==
    /\ i \in DOMAIN advisoryChecks[c]
    /\ AfterAdvisoryRead(c, i, ReservedSeatsCount(ledger, PerformanceId,
                                                  advisoryChecks[c][i].stageId))

\* getDocs of an advisory check rejects: getReservedSeatsCount returns 0
AdvisoryReadFail(c, i) ==
    /\ i \in DOMAIN advisoryChecks[c]
    /\ AfterAdvisoryRead(c, i, 0)

\* the submit button's disabled attribute
isSeatInsufficient(c) ==
    /\ selectedStageId[c] # NoStage
    /\ SeatLimit(selectedStageId[c]) > 0
    /\ peopleInput[c] > SeatLimit(selectedStageId[c]) - reservedSeats[c]

isEmailMismatch(email, emailConfirm) == email # "" /\ emailConfirm # "" /\ email # emailConfirm

SubmitDisabled(c, email, emailConfirm) ==
    isSubmitting[c] \/ checkingSeats[c] \/ isSeatInsufficient(c)
        \/ isEmailMismatch(email, emailConfirm)

\* the submit button is pressed: handleSubmit runs with the values of the form
FormSubmit(c) ==
    /\ pc[c] = "idle"
    /\ \E contact \in ContactInputs :
          /\ ~SubmitDisabled(c, contact[2], contact[3])
          /\ Submit(c, contact[1], contact[2], contact[3], peopleInput[c], selectedStageId[c])
    /\ UNCHANGED <<stages, calcVars, formVars>>

\* ------------------------------------------ CancelReservationPage steps
TokenDocsMutant(docs, tok) == DOMAIN docs

\* query(reservations, where cancelToken == tok); the result is ordered by
\* the auto-generated document ids, so docs[0] is any one of the matches
TokenDocs(docs, tok) == {r \in DOMAIN docs : docs[r].cancelToken = tok}

\* the page is opened with ?token=tok and loadReservation runs to its end
LoadReservation(s, tok) ==
    /\ ~cancelling[s]
    /\ token' = [token EXCEPT ![s] = tok]
    /\ cancelling' = [cancelling EXCEPT ![s] = FALSE]
    /\ IF tok = NoToken
       THEN /\ cancelError' = [cancelError EXCEPT ![s] = "no-token"]
            /\ reservation' = [reservation EXCEPT ![s] = NoReservation]
            /\ cancelled' = [cancelled EXCEPT ![s] = FALSE]
       ELSE IF TokenDocs(ledger, tok) = {}
       THEN /\ cancelError' = [cancelError EXCEPT ![s] = "not-found"]
            /\ reservation' = [reservation EXCEPT ![s] = NoReservation]
            /\ cancelled' = [cancelled EXCEPT ![s] = FALSE]
       ELSE \E r \in TokenDocs(ledger, tok) :       \* querySnapshot.docs[0]
               /\ cancelError' = [cancelError EXCEPT ![s] = ""]
               /\ reservation' = [reservation EXCEPT ![s] = [id |-> r, data |-> ledger[r]]]
               /\ cancelled' = [cancelled EXCEPT ![s] = (ledger[r].status = "cancelled")]
    /\ UNCHANGED <<ledger, mailQueue, clock, bookingVars, staffVars>>

\* the page is opened and getDocs rejects
LoadReservationFail(s, tok) ==
    /\ ~cancelling[s]
    /\ tok # NoToken
    /\ token' = [token EXCEPT ![s] = tok]
    /\ cancelError' = [cancelError EXCEPT ![s] = "backend"]
    /\ reservation' = [reservation EXCEPT ![s] = NoReservation]
    /\ cancelled' = [cancelled EXCEPT ![s] = FALSE]
    /\ UNCHANGED <<ledger, mailQueue, clock, cancelling, bookingVars, staffVars>>

\* handleCancel up to its await; the button is rendered only when !cancelled
\* and is disabled while cancelling
HandleCancel(s) ==
    /\ ~cancelled[s]
    /\ ~cancelling[s]
    /\ reservation[s] # NoReservation
    /\ reservation[s].data.status # "cancelled"
    /\ cancelling' = [cancelling EXCEPT ![s] = TRUE]
    /\ cancelError' = [cancelError EXCEPT ![s] = ""]
    /\ UNCHANGED <<ledger, mailQueue, clock, token, reservation, cancelled,
                   bookingVars, staffVars>>

CancelUpdateMutant(data, now) ==
    [data EXCEPT !.status = "cancelled", !.cancelledAt = now, !.cancelToken = NoToken]

\* updateDoc(reservations/id, {status: "cancelled", cancelledAt: serverTimestamp()})
CancelUpdate(data, now) == [data EXCEPT !.status = "cancelled", !.cancelledAt = now]

\* a cancellation that removes the document (deleteDoc) instead of marking it
CancelWriteMutant(s) ==
    /\ cancelling[s]
    /\ clock < MaxClock
    /\ reservation[s].id \in DOMAIN ledger
    /\ ledger' = [r \in DOMAIN ledger \ {reservation[s].id} |-> ledger[r]]
    /\ clock' = clock + 1
    /\ cancelled' = [cancelled EXCEPT ![s] = TRUE]
    /\ cancelling' = [cancelling EXCEPT ![s] = FALSE]
    /\ UNCHANGED <<mailQueue, token, reservation, cancelError, bookingVars, staffVars>>

\* updateDoc of handleCancel resolves
CancelWrite(s) ==
    /\ cancelling[s]
    /\ clock < MaxClock
    /\ reservation[s].id \in DOMAIN ledger
    /\ ledger' = [ledger EXCEPT ![reservation[s].id] = CancelUpdate(@, clock + 1)]
    /\ clock' = clock + 1
    /\ cancelled' = [cancelled EXCEPT ![s] = TRUE]
    /\ cancelling' = [cancelling EXCEPT ![s] = FALSE]
    /\ UNCHANGED <<mailQueue, token, reservation, cancelError, bookingVars, staffVars>>

\* updateDoc of handleCancel rejects
CancelWriteFail(s) ==
    /\ cancelling[s]
    /\ cancelError' = [cancelError EXCEPT ![s] = "backend"]
    /\ cancelling' = [cancelling EXCEPT ![s] = FALSE]
    /\ UNCHANGED <<ledger, mailQueue, clock, token, reservation, cancelled,
                   bookingVars, staffVars>>

\* ------------------------------------ PerformanceReservationsPage steps
\* checkedReservationsSet of the onSnapshot callback
CheckedSet(docs) == {r \in DOMAIN docs : docs[r].checkedIn /\ docs[r].status # "cancelled"}

\* the onSnapshot callback runs with the committed documents
OnSnapshot(st) ==
    /\ reservations[st] # ledger
    /\ reservations' = [reservations EXCEPT ![st] = ledger]
    /\ checkedReservations' = [checkedReservations EXCEPT ![st] = CheckedSet(ledger)]
    /\ UNCHANGED <<ledger, mailQueue, clock, savingCheckIn, checkInWrites, checkInAlert,
                   bookingVars, cancelVars>>

\* a row's isSaving, and the first test of handleCheckInToggle
IsSavingMutant(st, r) == FALSE
IsSaving(st, r) == r \in savingCheckIn[st]

\* handleCheckInToggle up to its await; the checkbox of a row is disabled
\* while isSaving or when the row's reservation is cancelled; the click
\* comes after the alert of an earlier failure has been dismissed
HandleCheckInToggle(st, r) ==
    /\ r \in DOMAIN reservations[st]
    /\ reservations[st][r].status # "cancelled"
    /\ ~IsSaving(st, r)
    /\ checkInAlert' = [checkInAlert EXCEPT ![st] = FALSE]
    /\ LET currentCheckedState == r \in checkedReservations[st]
           willBeChecked == ~currentCheckedState
       IN /\ savingCheckIn' = [savingCheckIn EXCEPT ![st] = @ \cup {r}]
          /\ checkedReservations' = [checkedReservations EXCEPT ![st] =
                IF willBeChecked THEN @ \cup {r} ELSE @ \ {r}]
          /\ checkInWrites' = [checkInWrites EXCEPT ![st] = @ \cup
                {[id |-> r, willBeChecked |-> willBeChecked,
                  captured |-> checkedReservations[st]]}]
    /\ UNCHANGED <<ledger, mailQueue, clock, reservations, bookingVars, cancelVars>>

CheckInUpdateMutant(data, willBeChecked, now) ==
    IF willBeChecked
    THEN [data EXCEPT !.checkedIn = TRUE, !.checkedInAt = now]
    ELSE [data EXCEPT !.checkedIn = FALSE]

\* a write that flips the stored checkedIn instead of setting it
CheckInUpdateFlipMutant(data, willBeChecked, now) ==
    IF ~data.checkedIn
    THEN [data EXCEPT !.checkedIn = TRUE, !.checkedInAt = now]
    ELSE [data EXCEPT !.checkedIn = FALSE, !.checkedInAt = NoTime]

\* a check-in write that also writes the status the row showed at the click
CheckInUpdateStatusMutant(data, willBeChecked, now) ==
    IF willBeChecked
    THEN [data EXCEPT !.checkedIn = TRUE, !.checkedInAt = now, !.status = "active"]
    ELSE [data EXCEPT !.checkedIn = FALSE, !.checkedInAt = NoTime, !.status = "active"]

\* updateData of handleCheckInToggle applied by updateDoc
CheckInUpdate(data, willBeChecked, now) ==
    IF willBeChecked
    THEN [data EXCEPT !.checkedIn = TRUE, !.checkedInAt = now]
    ELSE [data EXCEPT !.checkedIn = FALSE, !.checkedInAt = NoTime]

\* updateDoc of handleCheckInToggle resolves, finally
CheckInWrite(st, w) ==
    /\ w \in checkInWrites[st]
    /\ clock < MaxClock
    /\ w.id \in DOMAIN ledger
    /\ ledger' = [ledger EXCEPT ![w.id] = CheckInUpdate(@, w.willBeChecked, clock + 1)]
    /\ clock' = clock + 1
    /\ checkInWrites' = [checkInWrites EXCEPT ![st] = @ \ {w}]
    /\ savingCheckIn' = [savingCheckIn EXCEPT ![st] = @ \ {w.id}]
    /\ UNCHANGED <<mailQueue, reservations, checkedReservations, checkInAlert,
                   bookingVars, cancelVars>>

\* rollbackChecked of the catch block: built from the checkedReservations
\* the handler captured when it was called
RollbackCheckedMutant(current, w) == current
RollbackChecked(current, w) ==
    IF w.willBeChecked THEN w.captured \ {w.id} ELSE w.captured \cup {w.id}

\* updateDoc of handleCheckInToggle rejects: rollback, alert, finally
CheckInWriteFail(st, w) ==
    /\ w \in checkInWrites[st]
    /\ checkedReservations' = [checkedReservations EXCEPT ![st] = RollbackChecked(@, w)]
    /\ checkInAlert' = [checkInAlert EXCEPT ![st] = TRUE]
    /\ checkInWrites' = [checkInWrites EXCEPT ![st] = @ \ {w}]
    /\ savingCheckIn' = [savingCheckIn EXCEPT ![st] = @ \ {w.id}]
    /\ UNCHANGED <<ledger, mailQueue, clock, reservations, bookingVars, cancelVars>>

\* ------------------------------------------------------ specifications
NextBooking(C) ==
    /\ \E c \in C :
          \/ SubmitAny(c)
          \/ CommitRead(c)
          \/ CommitReadFail(c)
          \/ WriteReservation(c)
          \/ WriteReservationFail(c)
          \/ EnqueueMail(c)
          \/ EnqueueMailFail(c)
    /\ UNCHANGED <<stages, calcVars, formVars>>

NextCancel(S) ==
    /\ \E s \in S :
          \/ \E tok \in Tokens \cup {NoToken} : LoadReservation(s, tok)
          \/ \E tok \in Tokens : LoadReservationFail(s, tok)
          \/ HandleCancel(s)
          \/ CancelWrite(s)
          \/ CancelWriteFail(s)
    /\ UNCHANGED <<stages, calcVars, formVars>>

NextStaffOf(S) ==
    /\ \E st \in S :
          \/ OnSnapshot(st)
          \/ \E r \in Ids : HandleCheckInToggle(st, r)
          \/ \E w \in checkInWrites[st] : CheckInWrite(st, w)
          \/ \E w \in checkInWrites[st] : CheckInWriteFail(st, w)
    /\ UNCHANGED <<stages, calcVars, formVars>>

\* one dashboard
NextStaff == NextStaffOf({1})

\* a booking form and a cancellation page over an initially empty collection
Next == NextBooking({1}) \/ NextCancel({1})

Spec == Init /\ [][Next]_vars

\* collections that earlier bookings have left behind: n active reservations
\* written at times 1..n, the capped stage not over its limit; a party of one
\* on the capped stage or the largest party on the unlimited stage, each
\* with any token (generateCancelToken compares its result with nothing, so
\* two reservations may carry the same one)
SeedReqs ==
    {[stageId |-> 0, people |-> 1, name |-> "a", email |-> "e1"],
     [stageId |-> 1, people |-> MaxPeople, name |-> "a", email |-> "e1"]}

SeedLedgers(n, limit) ==
    {l \in [1..n -> {ReservationData(r, tok, 0) : r \in SeedReqs, tok \in Tokens}] :
        SumOver({i \in 1..n : l[i].stageId = 0}, [i \in 1..n |-> l[i].people]) <= limit}

Stamp(l) == [i \in DOMAIN l |-> [l[i] EXCEPT !.createdAt = i]]

InitSeeded(maxDocs) ==
    /\ stages = StagesOf(StageCap)
    /\ \E n \in 0..maxDocs : \E l \in SeedLedgers(n, StageCap) :
          /\ ledger = Stamp(l)
          /\ clock = n
    /\ mailQueue = <<>>
    /\ InitBooking
    /\ InitCancel
    /\ InitStaff
    /\ InitCalc
    /\ InitForm

\* the first submission of a session: nothing has been submitted before
FirstSubmit(c) ==
    /\ error[c] = NoError
    /\ pc[c] = "idle"
    /\ SubmitAny(c)

\* a booking form, submitted once, over a collection of earlier bookings on
\* a performance whose capped stage has any seat limit; the store may fail
\* the commit-time read
InitBook ==
    /\ \E limit \in 1..StageCap, n \in 0..MaxRes : \E l \in SeedLedgers(n, limit) :
          /\ stages = StagesOf(limit)
          /\ ledger = Stamp(l)
          /\ clock = n
    /\ mailQueue = <<>>
    /\ InitBooking
    /\ InitCancel
    /\ InitStaff
    /\ InitCalc
    /\ InitForm

NextBook ==
    /\ \/ FirstSubmit(1)
       \/ CommitRead(1)
       \/ CommitReadFail(1)
       \/ WriteReservation(1)
       \/ WriteReservationFail(1)
       \/ EnqueueMail(1)
       \/ EnqueueMailFail(1)
    /\ UNCHANGED <<stages, calcVars, formVars>>

SpecBook == InitBook /\ [][NextBook]_vars

\* two cancellation pages over a collection of earlier bookings
InitCancelFlow == InitSeeded(MaxRes)

NextCancelFlow == NextCancel(Sessions)

SpecCancel == InitCancelFlow /\ [][NextCancelFlow]_vars

\* a dashboard alone over a collection of earlier bookings; the dashboard
\* reads no cancelToken, the seeds carry the tokens 1, 2, ... in turn
DashboardSeeds(n) ==
    {l \in SeedLedgers(n, StageCap) :
        \A i \in 1..n : l[i].cancelToken = ((i - 1) % NumTokens) + 1}

InitDashboard ==
    /\ stages = StagesOf(StageCap)
    /\ \E n \in 0..MaxRes : \E l \in DashboardSeeds(n) :
          /\ ledger = Stamp(l)
          /\ clock = n
    /\ mailQueue = <<>>
    /\ InitBooking
    /\ InitCancel
    /\ InitStaff
    /\ InitCalc
    /\ InitForm

NextDashboard == NextStaff

SpecStaff == InitDashboard /\ [][NextDashboard]_vars

\* a dashboard and a cancellation page over a collection of earlier bookings
InitCheckIn == InitSeeded(MaxRes)

NextCheckIn == NextCancel({1}) \/ NextStaff

SpecCheckIn == InitCheckIn /\ [][NextCheckIn]_vars

\* two booking forms, each submitted once, on a performance whose capped
\* stage has any seat limit; the store answers every commit-time read
InitTwo ==
    /\ \E limit \in 1..StageCap : stages = StagesOf(limit)
    /\ ledger = EmptyLedger
    /\ mailQueue = <<>>
    /\ clock = 0
    /\ InitBooking
    /\ InitCancel
    /\ InitStaff
    /\ InitCalc
    /\ InitForm

NextTwo ==
    /\ \E c \in Clients :
          \/ FirstSubmit(c)
          \/ CommitRead(c)
          \/ WriteReservation(c)
          \/ WriteReservationFail(c)
          \/ EnqueueMail(c)
          \/ EnqueueMailFail(c)
    /\ UNCHANGED <<stages, calcVars, formVars>>

SpecTwo == InitTwo /\ [][NextTwo]_vars

\* the same two booking forms serialized through one collection: a
\* commit-time read is answered only when no other booking has a write pending
SerialCommitRead(c) ==
    /\ \A d \in Clients \ {c} : pc[d] # "writing"
    /\ CommitRead(c)

NextSerial ==
    /\ \E c \in Clients :
          \/ FirstSubmit(c)
          \/ SerialCommitRead(c)
          \/ WriteReservation(c)
          \/ WriteReservationFail(c)
          \/ EnqueueMail(c)
          \/ EnqueueMailFail(c)
    /\ UNCHANGED <<stages, calcVars, formVars>>

SpecSerial == InitTwo /\ [][NextSerial]_vars

\* a booking form used through its fields and its submit button, over an
\* initially empty collection, until a reservation of the form has been
\* written or its write has failed
FirstFormSubmit(c) ==
    /\ error[c].kind \notin {"backend"}
    /\ docRefId[c] = NoId
    /\ mailQueue = <<>>
    /\ FormSubmit(c)

NextForm ==
    \/ \E c \in {1} :
          \/ \E ppl \in PeopleInputs : SetPeople(c, ppl)
          \/ \E stage \in {0, 1} : SelectStage(c, stage)
          \/ \E i \in 1..MaxChecks : AdvisoryRead(c, i)
          \/ \E i \in 1..MaxChecks : AdvisoryReadFail(c, i)
          \/ FirstFormSubmit(c)
    \/ /\ \E c \in {1} :
             \/ CommitRead(c)
             \/ CommitReadFail(c)
             \/ WriteReservation(c)
             \/ WriteReservationFail(c)
             \/ EnqueueMail(c)
             \/ EnqueueMailFail(c)
       /\ UNCHANGED <<stages, calcVars, formVars>>

SpecForm == Init /\ [][NextForm]_vars

\* the three reserved counts of the application over the same reservations
\* of one stage
InitCount ==
    /\ stages = StagesOf(StageCap)
    /\ ledger = EmptyLedger
    /\ mailQueue = <<>>
    /\ clock = 0
    /\ InitBooking
    /\ InitCancel
    /\ InitStaff
    /\ InitForm
    /\ \E list \in EntryLists : calcArgs = [NoArgs EXCEPT !.reservations = list]
    /\ calcResult = NoResult

Count ==
    /\ calcResult = NoResult
    /\ calcResult' = [kind |-> "count",
                      booking |-> totalReserved(calcArgs.reservations),
                      dashboard |-> reservedPeople(calcArgs.reservations),
                      detail |-> getTotalReservedPeople(calcArgs.reservations)]
    /\ UNCHANGED <<stages, ledger, mailQueue, clock, bookingVars, cancelVars, staffVars,
                   formVars, calcArgs>>

NextCount == Count

SpecCount == InitCount /\ [][NextCount]_vars

\* getReservationStatus called with any totals
InitClassify ==
    /\ stages = StagesOf(StageCap)
    /\ ledger = EmptyLedger
    /\ mailQueue = <<>>
    /\ clock = 0
    /\ InitBooking
    /\ InitCancel
    /\ InitStaff
    /\ InitForm
    /\ \E r \in 0..MaxReserved, l \in 0..MaxLimit :
          calcArgs = [NoArgs EXCEPT !.reserved = r, !.limit = l]
    /\ calcResult = NoResult

Classify ==
    /\ calcResult = NoResult
    /\ calcResult' = [kind |-> "status",
                      status |-> getReservationStatus(calcArgs.reserved, calcArgs.limit)]
    /\ UNCHANGED <<stages, ledger, mailQueue, clock, bookingVars, cancelVars, staffVars,
                   formVars, calcArgs>>

NextClassify == Classify

SpecClassify == InitClassify /\ [][NextClassify]_vars

\* ------------------------------------- ReservePage people input and submit
\* the people state: the number 1 of useState(1) or e.target.value of the
\* number input, "" or the text of a number; halves is twice the number, so
\* 3 stands for "1.5"
TypedPeople == {[empty |-> TRUE, halves |-> 0]}
                  \cup {[empty |-> FALSE, halves |-> h] : h \in 0..(2 * MaxPeople)}

\* Number(people) in halves: Number("") is 0
NumberHalves(v) == IF v.empty THEN 0 ELSE v.halves

\* a people input that does not hold the value to the whole numbers
PeopleInputValidMutant(v) ==
    /\ ~v.empty
    /\ v.halves >= 2

\* constraint validation of <input type="number" min="1" required>: the
\* form's submit event fires only without valueMissing, rangeUnderflow and
\* stepMismatch (step defaults to 1, counted from min)
PeopleInputValid(v) ==
    /\ ~v.empty
    /\ v.halves >= 2
    /\ (v.halves - 2) % 2 = 0

\* the submit event of the form: handleSubmit runs with the people state of
\* this render; Number(people) < 1 exactly when its whole part is below 1, and
\* reservationData.people is Number(people)
FormSubmitEvent(c) ==
    /\ error[c] = NoError
    /\ pc[c] = "idle"
    /\ calcResult = NoResult
    /\ PeopleInputValid(calcArgs.people)
    /\ \E contact \in ContactInputs :
          Submit(c, contact[1], contact[2], contact[3],
                 NumberHalves(calcArgs.people) \div 2, calcArgs.stage)
    /\ calcResult' = [kind |-> "submit", people |-> NumberHalves(calcArgs.people)]
    /\ UNCHANGED <<stages, calcArgs, formVars>>

\* a booking form whose people input holds any value and whose stage
\* selection is any of the inputs, submitted once on a performance whose
\* capped stage has any seat limit
InitEntry ==
    /\ \E limit \in 1..StageCap : stages = StagesOf(limit)
    /\ ledger = EmptyLedger
    /\ mailQueue = <<>>
    /\ clock = 0
    /\ InitBooking
    /\ InitCancel
    /\ InitStaff
    /\ InitForm
    /\ \E v \in TypedPeople, stage \in StageInputs :
          calcArgs = [people |-> v, stage |-> stage]
    /\ calcResult = NoResult

NextEntry ==
    \/ FormSubmitEvent(1)
    \/ /\ \/ CommitRead(1)
          \/ CommitReadFail(1)
          \/ WriteReservation(1)
          \/ WriteReservationFail(1)
          \/ EnqueueMail(1)
          \/ EnqueueMailFail(1)
       /\ UNCHANGED <<stages, calcVars, formVars>>

SpecEntry == InitEntry /\ [][NextEntry]_vars

\* the whole core over a collection that holds one earlier booking: a
\* booking form submitted once, a cancellation page and a dashboard
InitCore ==
    /\ stages = StagesOf(StageCap)
    /\ \E l \in DashboardSeeds(1) :
          /\ ledger = Stamp(l)
          /\ clock = 1
    /\ mailQueue = <<>>
    /\ InitBooking
    /\ InitCancel
    /\ InitStaff
    /\ InitCalc
    /\ InitForm

\* the cancellation page is opened once, from the link of a confirmation mail
FirstLoad(s) ==
    /\ token[s] = NoToken
    /\ cancelError[s] = ""
    /\ \E tok \in Tokens : LoadReservation(s, tok) \/ LoadReservationFail(s, tok)

\* a checkbox clicked while no other check-in write of the session is pending
ToggleAlone(st) ==
    /\ checkInWrites[st] = {}
    /\ \E r \in Ids : HandleCheckInToggle(st, r)

NextCore ==
    /\ \/ FirstSubmit(1)
       \/ CommitRead(1)
       \/ CommitReadFail(1)
       \/ WriteReservation(1)
       \/ WriteReservationFail(1)
       \/ EnqueueMail(1)
       \/ EnqueueMailFail(1)
       \/ FirstLoad(1)
       \/ HandleCancel(1)
       \/ CancelWrite(1)
       \/ CancelWriteFail(1)
       \/ OnSnapshot(1)
       \/ ToggleAlone(1)
       \/ \E w \in checkInWrites[1] : CheckInWrite(1, w)
       \/ \E w \in checkInWrites[1] : CheckInWriteFail(1, w)
    /\ UNCHANGED <<stages, calcVars, formVars>>

SpecCore == InitCore /\ [][NextCore]_vars

\* two dashboards over a collection of earlier bookings; in each, a
\* checkbox is clicked while no other check-in write of the session is pending
InitTwoStaff == InitDashboard

NextTwoStaff ==
    /\ \E st \in Staff :
          \/ OnSnapshot(st)
          \/ ToggleAlone(st)
          \/ \E w \in checkInWrites[st] : CheckInWrite(st, w)
          \/ \E w \in checkInWrites[st] : CheckInWriteFail(st, w)
    /\ UNCHANGED <<stages, calcVars, formVars>>

SpecTwoStaff == InitTwoStaff /\ [][NextTwoStaff]_vars

\* ---------------------------------------------------- StageDetailPage
\* getDocs(reservations where performanceId == id), each doc.data() pushed
\* into an array; people is stored as a number by the booking form
PerformanceReservations(docs, perf) ==
    [r \in {x \in DOMAIN docs : docs[x].performanceId = perf} |->
        [people |-> JsNumber(docs[r].people), status |-> docs[r].status]]

\* the reservation status part of loadPerformance, getDocs resolved
LoadReservationStatus ==
    /\ calcResult' =
          [kind |-> "detail",
           status |-> getReservationStatus(
                         getTotalReservedPeople(PerformanceReservations(ledger, PerformanceId)),
                         getTotalSeatLimit(stages))]
    /\ UNCHANGED <<stages, ledger, mailQueue, clock, bookingVars, cancelVars, staffVars,
                   formVars, calcArgs>>

\* the detail page opened at any time while a booking form is submitted once
\* over a collection of earlier bookings
InitDetail == InitBook

NextDetail == LoadReservationStatus \/ NextBook

SpecDetail == InitDetail /\ [][NextDetail]_vars

\* ------------------------------------------------ storage calls settle
\* the pending storage call of handleSubmit resolves or rejects
SettleSubmit(c) ==
    /\ \/ CommitRead(c)
       \/ CommitReadFail(c)
       \/ WriteReservation(c)
       \/ WriteReservationFail(c)
       \/ EnqueueMail(c)
       \/ EnqueueMailFail(c)
    /\ UNCHANGED <<stages, calcVars, formVars>>

\* the pending updateDoc of the toggle of reservation r resolves or rejects
SettleCheckIn(st, r) ==
    /\ \E w \in checkInWrites[st] :
          /\ w.id = r
          /\ CheckInWrite(st, w) \/ CheckInWriteFail(st, w)
    /\ UNCHANGED <<stages, calcVars, formVars>>

\* a booking form submitted once and a dashboard, where a checkbox is clicked
\* while no other check-in write is pending, over a collection that holds one
\* earlier booking
InitLive == InitCore

NextLive ==
    \/ FirstSubmit(1) /\ UNCHANGED <<stages, calcVars, formVars>>
    \/ SettleSubmit(1)
    \/ (OnSnapshot(1) \/ ToggleAlone(1)) /\ UNCHANGED <<stages, calcVars, formVars>>
    \/ \E r \in Ids : SettleCheckIn(1, r)

\* every storage call that is pending is answered in the end
SpecLive ==
    /\ InitLive
    /\ [][NextLive]_vars
    /\ WF_vars(SettleSubmit(1))
    /\ \A r \in Ids : WF_vars(SettleCheckIn(1, r))

\* ------------------------------------------------------------- claims
\* what the specification calls reservedCount: the party sizes of the
\* non-cancelled reservations of a stage
ActiveOf(stage) ==
    {r \in DOMAIN ledger : ledger[r].stageId = stage /\ ledger[r].status # "cancelled"}

ReservedCount(stage) == SumOver(ActiveOf(stage), [r \in DOMAIN ledger |-> ledger[r].people])

\* every document of a stage, cancelled or not
StoredCount(stage) ==
    SumOver({r \in DOMAIN ledger : ledger[r].stageId = stage},
            [r \in DOMAIN ledger |-> ledger[r].people])

Rejected(c) == error[c].kind = "capacity" /\ pc[c] = "idle" /\ ~isSubmitting[c]

\* C1: on a capped stage, a commit-time re-check whose latest read leaves
\* fewer seats than requested ends handleSubmit with the capacity error and
\* writes nothing: reservations and mailQueue are unchanged.
C1_RejectWithoutWrite ==
    [][\A c \in Clients :
          LET limit == stages[req[c].stageId].seatLimit
          IN /\ (CommitRead(c) /\ req[c].people > limit - StoredCount(req[c].stageId))
                   => (Rejected(c)' /\ UNCHANGED <<ledger, mailQueue>>)
             /\ (CommitReadFail(c) /\ req[c].people > limit - 0)
                   => (Rejected(c)' /\ UNCHANGED <<ledger, mailQueue>>)]_vars

C1_Witness ==
    \E c \in Clients :
        /\ Rejected(c)
        /\ error[c].requested > error[c].available
        /\ ledger # EmptyLedger

\* C2: with valid input, a booking whose party fits into the seats left by
\* the non-cancelled reservations of a capped stage is not rejected for
\* capacity, and the reservation write adds exactly one document, for the
\* requested stage; on the unlimited stage every party of at least 1 is written.
C2_AdmitsWithinAvailable ==
    [][\A c \in Clients :
          /\ (CommitRead(c)
                /\ req[c].people <= stages[req[c].stageId].seatLimit - ReservedCount(req[c].stageId))
                => pc'[c] = "writing"
          /\ (SubmitAny(c) /\ isSubmitting'[c] /\ stages[req'[c].stageId].seatLimit = 0)
                => pc'[c] = "writing"
          /\ WriteReservation(c)
                => /\ DOMAIN ledger' = DOMAIN ledger \cup {docRefId'[c]}
                   /\ docRefId'[c] \notin DOMAIN ledger
                   /\ ledger'[docRefId'[c]].stageId = req[c].stageId]_vars

\* C3: two bookings of one seat each for a capped stage with one seat left,
\* the second commit-time read answered after the first write: at most one
\* of them is written.
Succeeded(c) == docRefId[c] # NoId

OthersOn(stage) ==
    {r \in DOMAIN ledger : ledger[r].stageId = stage /\ r \notin {docRefId[c] : c \in Clients}}

AvailableBefore(stage) ==
    stages[stage].seatLimit - SumOver(OthersOn(stage), [r \in DOMAIN ledger |-> ledger[r].people])

BookedOneSeat(c, stage) ==
    /\ Succeeded(c)
    /\ ledger[docRefId[c]].stageId = stage
    /\ ledger[docRefId[c]].people = 1

C3_SerializedAtMostOne ==
    \A stage \in DOMAIN stages :
        (stages[stage].seatLimit > 0 /\ AvailableBefore(stage) = 1)
            => ~(BookedOneSeat(1, stage) /\ BookedOneSeat(2, stage))

C3_Witness ==
    \E c, d \in Clients :
        /\ c # d
        /\ stages[0].seatLimit > 0
        /\ AvailableBefore(0) = 1
        /\ BookedOneSeat(c, 0)
        /\ Rejected(d)
        /\ error[d].requested = 1
        /\ error[d].available = 0

\* C4: two interleaved bookings for a capped stage leave its reserved count
\* above the seat limit by at most the smaller of the two party sizes, and
\* not above it at all unless both were written.
MinOf(a, b) == IF a <= b THEN a ELSE b

Excess(stage) == ReservedCount(stage) - stages[stage].seatLimit

BothWrittenOn(stage) ==
    \A c \in Clients : Succeeded(c) /\ ledger[docRefId[c]].stageId = stage

C4_OverbookingBound ==
    \A stage \in DOMAIN stages :
        stages[stage].seatLimit > 0
            => IF BothWrittenOn(stage)
               THEN Excess(stage) <= MinOf(ledger[docRefId[1]].people, ledger[docRefId[2]].people)
               ELSE Excess(stage) <= 0

C4_Witness ==
    /\ BothWrittenOn(0)
    /\ ledger[docRefId[1]].people # ledger[docRefId[2]].people
    /\ Excess(0) = MinOf(ledger[docRefId[1]].people, ledger[docRefId[2]].people)

\* C5: nothing re-validates a booking once its commit-time re-check has
\* passed: a handleSubmit that is waiting for its reservation write is never
\* turned down for capacity, whatever has been written in the meantime.
C5_CheckThenAct ==
    [][\A c \in Clients : pc[c] = "writing" => error'[c].kind # "capacity"]_vars

\* both bookings passed the re-check on the same read, both are written and
\* the stage holds more people than its seat limit
C5_Witness ==
    /\ BothWrittenOn(0)
    /\ pc[1] = "mailing"
    /\ pc[2] = "mailing"
    /\ latestReservedSeats[1] = latestReservedSeats[2]
    /\ ReservedCount(0) > stages[0].seatLimit

\* C6: once a reservation is cancelled, the commit-time re-check of a later
\* booking for its stage works on a reserved count that leaves its party
\* out: the count kept on admission and the available seats reported on
\* rejection are those of the non-cancelled reservations.
C6_CancelledSeatsFreed ==
    [][\A c \in Clients :
          CommitRead(c) =>
              /\ pc'[c] = "writing"
                    => latestReservedSeats'[c] = ReservedCount(req[c].stageId)
              /\ pc'[c] = "idle"
                    => error'[c].available =
                          stages[req[c].stageId].seatLimit - ReservedCount(req[c].stageId)]_vars

\* C7: a reservation stored as cancelled is not written again by the
\* cancellation flow: its status and its cancellation timestamp stay as the
\* first cancel wrote them.
C7_CancelWrittenOnce ==
    [][\A r \in DOMAIN ledger :
          ledger[r].status = "cancelled" => ledger'[r] = ledger[r]]_vars

\* the reservations that carry a token
Carriers(tok) == {r \in DOMAIN ledger : ledger[r].cancelToken = tok}

Loaded(s, r) == reservation[s] = [id |-> r, data |-> ledger[r]]

Protected(d) ==
    <<d.performanceId, d.stageId, d.people, d.name, d.email, d.cancelToken, d.createdAt,
      d.checkedIn, d.checkedInAt>>

C10_NoToggleOnCancelled ==
    [][\A st \in Staff : \A r \in DOMAIN ledger :
          (ledger[r].status = "cancelled" /\ HandleCheckInToggle(st, r))
              => UNCHANGED <<checkedReservations, checkInWrites>>]_vars

\* the check-in writes of a session that are on their way for a reservation
InFlight(st, r) == {w \in checkInWrites[st] : w.id = r}

\* C11: in a staff session at most one check-in write per reservation is in
\* flight at any time, and the reservations with a write in flight are
\* exactly those marked as saving, whose toggles are ignored.
C11_OneWriteInFlight ==
    \A st \in Staff : \A r \in Ids :
        /\ Cardinality(InFlight(st, r)) <= 1
        /\ (InFlight(st, r) # {}) <=> (r \in savingCheckIn[st])

\* a second toggle of a reservation, issued after its first write settled,
\* is in flight
C11_Witness ==
    \E st \in Staff : \E r \in DOMAIN ledger :
        /\ ledger[r].checkedIn
        /\ \E w \in InFlight(st, r) : ~w.willBeChecked

\* C12: a toggle flips the session's checked state of the reservation at
\* once; when its write fails the checked state of that reservation is the
\* pre-toggle one again, the alert shows, and the collection is unchanged.
C12_OptimisticRollback ==
    [][\A st \in Staff :
          /\ \A r \in Ids :
                HandleCheckInToggle(st, r)
                    => ((r \in checkedReservations'[st]) <=> (r \notin checkedReservations[st]))
          /\ \A w \in checkInWrites[st] :
                CheckInWriteFail(st, w)
                    => /\ (w.id \in checkedReservations'[st]) <=> ~w.willBeChecked
                       /\ checkInAlert'[st]
                       /\ ledger' = ledger]_vars

\* the write of a toggle failed and the reservation shows unchecked, as it
\* is stored
C12_Witness ==
    \E st \in Staff : \E r \in DOMAIN ledger :
        /\ checkInAlert[st]
        /\ InFlight(st, r) = {}
        /\ r \notin checkedReservations[st]
        /\ ~ledger[r].checkedIn
        /\ ledger[r].checkedInAt = NoTime

\* C13: every stored reservation has checkedInAt set exactly when its
\* checkedIn is true.
C13_CheckedInAtIffCheckedIn ==
    \A r \in DOMAIN ledger : (ledger[r].checkedInAt # NoTime) <=> ledger[r].checkedIn

\* a reservation was checked in and checked out again, both writes settled
C13_Witness ==
    /\ DOMAIN ledger # {}
    /\ clock = Cardinality(DOMAIN ledger) + 2
    /\ \A st \in Staff : checkInWrites[st] = {}
    /\ \A r \in DOMAIN ledger : ~ledger[r].checkedIn /\ ledger[r].checkedInAt = NoTime

\* the reserved count as the specification defines it: the party sizes of
\* the entries that are not cancelled, 1 for an entry whose party size is
\* missing or not a number
ClaimedPartySize(v) == IF v.type = "number" THEN v.n ELSE 1

ClaimedReservedCount(list) ==
    SumOver({i \in DOMAIN list : list[i].status # "cancelled"},
            [i \in DOMAIN list |-> ClaimedPartySize(list[i].people)])

\* C14: the reserved count computed over a list of reservations is the sum
\* of the party sizes of its non-cancelled entries, an entry without a
\* numeric party size counting as 1; this holds for getTotalReservedPeople,
\* for the booking path's count and for the dashboard's stage statistics.
C14_ReservedCountAsSpecified ==
    calcResult.kind = "count" =>
        /\ calcResult.detail = ClaimedReservedCount(calcArgs.reservations)
        /\ calcResult.booking = ClaimedReservedCount(calcArgs.reservations)
        /\ calcResult.dashboard = ClaimedReservedCount(calcArgs.reservations)

\* C15: over the same reservations of one stage the booking path, the
\* dashboard and the detail page's aggregation compute the same reserved count.
C15_SameCountInAllConsumers ==
    calcResult.kind = "count" =>
        /\ calcResult.booking = calcResult.dashboard
        /\ calcResult.booking = calcResult.detail

\* C16: getReservationStatus returns available when the limit is 0;
\* otherwise, with available = limit - reserved, full exactly when
\* available <= 0, few exactly when 0 < available <= 5, and available
\* exactly when available > 5.
C16_Classify ==
    calcResult.kind = "status" =>
        LET available == calcArgs.limit - calcArgs.reserved
        IN IF calcArgs.limit = 0
           THEN calcResult.status = "available"
           ELSE /\ (calcResult.status = "full") <=> (available <= 0)
                /\ (calcResult.status = "few") <=> (0 < available /\ available <= 5)
                /\ (calcResult.status = "available") <=> (available > 5)

\* exactly five seats left: few
C16_Witness ==
    /\ calcResult.kind = "status"
    /\ calcArgs.limit - calcArgs.reserved = 5
    /\ calcResult.status = "few"

\* C17: a submission that handleSubmit accepts comes after an advisory check
\* for the stage and the people of the form has returned; on a capped stage
\* handleSubmit reaches its reservation write only from the commit-time
\* re-check, and a reservation is written only from that point.
C17_AdvisoryThenRecheckThenWrite ==
    [][\A c \in Clients :
          /\ (FormSubmit(c) /\ isSubmitting'[c])
                => [stageId |-> selectedStageId[c], people |-> peopleInput[c]]
                      \in advisoryCompleted[c]
          /\ (pc'[c] = "writing" /\ pc[c] # "writing" /\ SeatLimit(req'[c].stageId) > 0)
                => (pc[c] = "reading" /\ (CommitRead(c) \/ CommitReadFail(c)))
          /\ (docRefId'[c] # NoId /\ docRefId[c] = NoId) => pc[c] = "writing"]_vars

\* the mailQueue documents that announce reservation r: pending, with its
\* id and with a cancelUrl that carries its cancelToken
NotificationsOf(r) ==
    {i \in DOMAIN mailQueue :
        /\ mailQueue[i].reservationId = r
        /\ mailQueue[i].status = "pending"
        /\ mailQueue[i].cancelUrl = ledger[r].cancelToken}

\* C18: once the handleSubmit that wrote a reservation has gone past its
\* mailQueue write, the queue holds exactly one pending notification with
\* the id of that reservation and its cancelToken in the cancelUrl; every
\* queued notification names a reservation that was written.
C18_OneNotificationPerWrite ==
    /\ \A i \in DOMAIN mailQueue : mailQueue[i].reservationId \in DOMAIN ledger
    /\ \A r \in DOMAIN ledger :
          (\A c \in Clients : ~(pc[c] = "mailing" /\ docRefId[c] = r))
             => Cardinality(NotificationsOf(r)) = 1

\* the inputs the specification lets createReservation refuse
ClaimedInvalid(name, email, emailConfirm, people, stage) ==
    \/ name = "" \/ email = "" \/ emailConfirm = ""
    \/ email # emailConfirm
    \/ people < 1
    \/ stage = NoStage
    \/ ~(0 <= stage /\ stage < Cardinality(DOMAIN stages))

\* C19: a submission with a blank name or email entry, differing email
\* entries, fewer than 1 people, no stage or a stage index outside the stage
\* list ends in the validation error; handleSubmit starts no commit-time
\* read and no write, and reservations and mailQueue are unchanged.
C19_ValidationRejects ==
    [][\A c \in Clients, contact \in ContactInputs, people \in PeopleInputs,
          stage \in StageInputs :
          (/\ Submit(c, contact[1], contact[2], contact[3], people, stage)
           /\ ClaimedInvalid(contact[1], contact[2], contact[3], people, stage))
             => /\ error'[c].kind = "validation"
                /\ pc'[c] = pc[c]
                /\ pc'[c] \notin {"reading", "writing", "mailing"}
                /\ ~isSubmitting'[c]
                /\ UNCHANGED <<ledger, mailQueue, latestReservedSeats, docRefId>>]_vars

\* a refused submission over a collection that holds earlier bookings
C19_Witness ==
    /\ error[1].kind = "validation"
    /\ pc[1] = "idle"
    /\ ~isSubmitting[1]
    /\ ledger # EmptyLedger
    /\ mailQueue = <<>>

\* C20: the reservation that an accepted submission writes has as people
\* the number held by the people input, a whole number of at least 1, and a
\* performanceId and stageId that name an entry of the stage list of the
\* performance, the stage selected in the form.
C20_WrittenPartyAndStage ==
    \A c \in Clients :
        docRefId[c] # NoId =>
            LET d == ledger[docRefId[c]]
            IN /\ calcResult.kind = "submit"
               /\ calcResult.people % 2 = 0
               /\ calcResult.people = 2 * d.people
               /\ d.people \in Nat /\ d.people >= 1
               /\ d.performanceId = PerformanceId
               /\ d.stageId = calcArgs.stage
               /\ 0 <= d.stageId /\ d.stageId < Cardinality(DOMAIN stages)

\* a party of MaxPeople written on the capped stage
C20_Witness ==
    /\ docRefId[1] # NoId
    /\ ledger[docRefId[1]].people = MaxPeople
    /\ ledger[docRefId[1]].stageId = 0
    /\ calcArgs.people.halves = 2 * MaxPeople

C22_StoredMeansValid ==
    \A r \in DOMAIN ledger : ledger[r].status # "cancelled"

\* the reservations stored as checked in and not cancelled
CommittedCheckedIn == {r \in DOMAIN ledger : ledger[r].checkedIn /\ ledger[r].status # "cancelled"}

C24_AbsoluteCheckIn ==
    [][\A st \in Staff : \A w \in checkInWrites[st] :
          CheckInWrite(st, w) =>
             /\ ledger'[w.id].checkedIn = w.willBeChecked
             /\ checkInAlert'[st] = checkInAlert[st]
             /\ w.id \notin savingCheckIn'[st]
             /\ DOMAIN ledger' = DOMAIN ledger]_vars

\* both sessions saw reservation 1 unchecked, both toggled it, both writes
\* have succeeded and it is stored checked in
C24_Witness ==
    /\ 1 \in DOMAIN ledger
    /\ ledger[1].checkedIn
    /\ ledger[1].checkedInAt >= ledger[1].createdAt + 2
    /\ \A st \in Staff :
          /\ 1 \in DOMAIN reservations[st]
          /\ ~reservations[st][1].checkedIn
          /\ 1 \in checkedReservations[st]
          /\ checkInWrites[st] = {}
          /\ ~checkInAlert[st]

\* C25: when handleSubmit has ended with an error message on the form, the
\* reservations collection holds no document written by that submission.
C25_FailureMeansNotWritten ==
    \A c \in Clients :
        (pc[c] = "idle" /\ ~isSubmitting[c] /\ error[c] # NoError)
            => docRefId[c] \notin DOMAIN ledger

\* C26: on a capped stage handleSubmit goes on to its reservation write
\* only with the count of a commit-time read that returned the documents of
\* the stage; a read that failed leads to no write.
C26_WriteOnlyAfterAnsweredRead ==
    [][\A c \in Clients :
          (pc[c] = "reading" /\ pc'[c] = "writing")
              => latestReservedSeats'[c] = StoredCount(req[c].stageId)]_vars

\* C27: the rollback of a failed check-in write changes the checked state
\* of its own reservation only; every other reservation is shown as it was
\* just before the rollback.
C27_RollbackTouchesOwnRow ==
    [][\A st \in Staff : \A w \in checkInWrites[st] :
          CheckInWriteFail(st, w) =>
             \A r \in Ids \ {w.id} :
                (r \in checkedReservations'[st]) <=> (r \in checkedReservations[st])]_vars

\* C28: a reservation stored with status cancelled keeps that status
\* through every step of booking, cancellation and check-in toggle.
C28_CancelledIsAbsorbing ==
    [][\A r \in DOMAIN ledger :
          ledger[r].status = "cancelled"
              => (r \in DOMAIN ledger' /\ ledger'[r].status = "cancelled")]_vars

\* a cancelled reservation that a check-in toggle has written after its
\* cancellation
C28_Witness ==
    \E r \in DOMAIN ledger :
        /\ ledger[r].status = "cancelled"
        /\ ledger[r].checkedInAt > ledger[r].cancelledAt
        /\ ledger[r].cancelledAt # NoTime

\* C29: when the detail page computes the label full, the commit-time
\* re-check of the booking form, run on the same documents, rejects a party
\* of 1 on every seat-capped stage of the performance.
C29_FullMeansNoSeatLeft ==
    [][(LoadReservationStatus /\ calcResult'.status = "full")
          => \A stage \in DOMAIN stages :
                SeatLimit(stage) > 0
                   => SeatInsufficient(1, SeatLimit(stage),
                                       ReservedSeatsCount(ledger, PerformanceId, stage))]_vars

\* C30: a submission that is being processed stops being processed, and a
\* reservation whose check-in is being saved stops being saved, whether the
\* storage calls succeed, the booking is rejected for capacity, or a call fails.
C30_ProcessingEnds ==
    /\ \A c \in Clients : isSubmitting[c] ~> ~isSubmitting[c]
    /\ \A st \in Staff : \A r \in Ids :
          (r \in savingCheckIn[st]) ~> (r \notin savingCheckIn[st])

\* the submission has ended with a failure of its last storage call and a
\* toggle has ended with a failed write; neither is processing any more
C30_Witness ==
    /\ error[1].kind = "backend"
    /\ docRefId[1] # NoId
    /\ ~isSubmitting[1]
    /\ checkInAlert[1]
    /\ savingCheckIn[1] = {}
====
